---------------------------- MODULE Spec2Model ----------------------------
(***************************************************************************)
(* ClothKeep: the sale-transaction engine of src/src/app/page.tsx          *)
(* (InventoryPOSApp): cart, checkout, catalog and customer handlers, JSON  *)
(* import, and the push/pull reconciliation of cloudSync.                  *)
(*                                                                         *)
(* Money is held in minor units (hundredths of the currency unit), so the  *)
(* division by 100 in the tax computation is exact for the whole-unit      *)
(* prices and integer tax rates the model draws.                           *)
(***************************************************************************)
EXTENDS Integers, Sequences, FiniteSets, TLC

\* ---------------------------------------------------------------- bounds
MaxStock == 2          \* largest stock a loaded variant starts with
MaxCart == 2           \* cart lines, POS tab alone
MaxRegisterCart == 1   \* cart lines, whole register
MaxQty == 2            \* largest quantity typed into a cart line
MaxSales == 1          \* sales in history, POS tab alone
MaxRegisterSales == 2  \* sales in history, whole register
MaxIds == 2            \* cart keys handed out in one run
MaxProducts == 3       \* products in the catalog
MaxFormVariants == 1   \* variants added to the new-product form in one run
MaxCustomers == 2      \* customers
MaxSyncSales == 1      \* cart lines added, and sold, in one run of the register with the cloud
MaxPushes == 2         \* pushes started in one run
MaxPulls == 1          \* pulls started in one run
MaxSkuProducts == 1    \* products created in one run of the SKU box
MaxInvoiceSales == 2   \* sales made in one run of the till on several dates
MaxImportItems == 1    \* sale items recorded in one run of the register with backups
MaxPosItems == 3       \* lines added in one run of the alternate page
MaxHistoryItems == 2   \* sale items recorded in one run of the till with backups

\* ------------------------------------------------- optional values (?., ??)
Undefined == <<"undefined">>
Null == <<"null">>
Some(x) == <<"some", x>>
IsNullish(o) == o = Undefined \/ o = Null
\* a ?? b, for an optional a and a plain b
Coalesce(o, d) == IF IsNullish(o) THEN d ELSE o[2]
\* a ?? null and a ?? undefined, keeping the wrapper
OrNull(o) == IF IsNullish(o) THEN Null ELSE o
OrUndefined(o) == IF IsNullish(o) THEN Undefined ELSE o

Max(a, b) == IF a >= b THEN a ELSE b

\* no alert() raised by the latest handler
NoAlert == <<"", "">>

VARIABLES
    settings,        \* Settings: taxRateDefault, supabase configured or not
    products,        \* Product[]
    customers,       \* Customer[]
    sales,           \* Sale[]
    cart,            \* CartItem[]
    cartDiscount,
    cartTaxRate,
    cartPayment,
    cartCustomerId,
    nextId,          \* the number of uuidv4() values handed out so far, by kind
    now,             \* the wall clock dayjs() reads: [year, month]
    alertMsg,        \* the last alert() shown: <<handler, message>>
    initialStock,    \* history: variant id -> stock when the catalog was loaded
    pForm,           \* the new-product form
    cForm,           \* the new-customer form
    remote,          \* the hosted store: table name -> rows
    push,            \* the pushToCloud call in flight, if any
    pull,            \* the pullFromCloud call in flight, if any
    edge             \* the edge middleware: its environment, the latest request, its response

vars == <<settings, products, customers, sales, cart, cartDiscount, cartTaxRate,
          cartPayment, cartCustomerId, nextId, now, alertMsg, initialStock,
          pForm, cForm, remote, push, pull, edge>>

forms == <<pForm, cForm>>
sync == <<remote, push, pull>>

local == <<products, customers, sales>>
cartState == <<cart, cartDiscount, cartTaxRate, cartPayment, cartCustomerId>>

\* --------------------------------------------------------- input domains
Prices == {30000, 50000}         \* whole units, in hundredths
Discounts == {0, 10000, 200000}  \* the last exceeds every subtotal of the model
TaxRates == {0, 13}
PaymentMethods == {"cash", "card"}
NoSuchId == "none"                \* an id no entity ever has

\* uuidv4(): the n-th value handed out for entities of one kind (cart keys, sale
\* items, products, variants, customers); values never repeat and values of
\* different kinds never meet
Uuid(kind, n) == kind \o "-" \o ToString(n)
NoIdsYet == [key |-> 0, item |-> 0, prod |-> 0, var |-> 0, cust |-> 0, sale |-> 0]

\* ------------------------------------------------ the state loaded at start
\* loadLS(LS.products, []): a catalog saved by an earlier session
LoadedProduct1(s1, s2) ==
    [id |-> "prod-101", name |-> "Tee", sku |-> "TEE-001", category |-> Some("tops"),
     cost |-> 20000, price |-> 50000, notes |-> Undefined, imageUrl |-> Undefined,
     variants |-> <<[id |-> "var-111", size |-> "M", color |-> "Black", stock |-> s1,
                     price |-> Undefined],
                    [id |-> "var-112", size |-> "L", color |-> "White", stock |-> s2,
                     price |-> Some(70000)]>>]
LoadedProduct2 ==
    [id |-> "prod-102", name |-> "Cap", sku |-> "CAP-001", category |-> Undefined,
     cost |-> 10000, price |-> 30000, notes |-> Some("summer"), imageUrl |-> Undefined,
     variants |-> <<>>]
LoadedCatalogs ==
    {<<LoadedProduct1(s1, s2), LoadedProduct2>> : s1 \in 0..MaxStock, s2 \in {1}}
LoadedCustomer ==
    [id |-> "cust-201", name |-> "Asha", phone |-> Some("98000"), email |-> Undefined,
     notes |-> Undefined]

\* ----------------------------------------------------------- catalog lookup
\* products.find((p) => p.id === prodId): index of the first match, 0 if none
FindProduct(ps, prodId) ==
    IF \E i \in 1..Len(ps) : ps[i].id = prodId
    THEN CHOOSE i \in 1..Len(ps) :
             ps[i].id = prodId /\ \A j \in 1..(i - 1) : ps[j].id # prodId
    ELSE 0

\* variants.find((v) => v.id === variantId), variantId possibly undefined
FindVariant(vs, variantId) ==
    IF \E i \in 1..Len(vs) : Some(vs[i].id) = variantId
    THEN CHOOSE i \in 1..Len(vs) :
             Some(vs[i].id) = variantId /\ \A j \in 1..(i - 1) : Some(vs[j].id) # variantId
    ELSE 0

\* `${p.sku}-${v.size}-${v.color}`
CompositeSku(p, v) == p.sku \o "-" \o v.size \o "-" \o v.color

VariantIdsOf(ps) ==
    UNION {{ps[i].variants[j].id : j \in 1..Len(ps[i].variants)} : i \in 1..Len(ps)}
ProductIdsOf(ps) == {ps[i].id : i \in 1..Len(ps)}

\* the stock of the first variant carrying id vid in the catalog, if any
StockOf(ps, vid) ==
    LET hits == {<<i, j>> \in (1..Len(ps)) \X (1..3) :
                    j <= Len(ps[i].variants) /\ ps[i].variants[j].id = vid}
        h == CHOOSE x \in hits : \A y \in hits :
                 x[1] < y[1] \/ (x[1] = y[1] /\ x[2] <= y[2])
    IN ps[h[1]].variants[h[2]].stock

\* ------------------------------------------------------------------- cart
\* a CartItem priced at the product's base price whatever the variant
NewCartItemBasePrice(key, prod, vi) ==
    LET v == prod.variants[vi] IN
    [key |-> key,
     productId |-> prod.id,
     variantId |-> IF vi > 0 THEN Some(v.id) ELSE Undefined,
     display |-> prod.name \o
                 (IF vi > 0 THEN " (" \o v.size \o "/" \o v.color \o ")" ELSE ""),
     unitPrice |-> prod.price,
     qty |-> 1,
     sku |-> IF vi > 0 THEN CompositeSku(prod, v) ELSE prod.sku,
     size |-> IF vi > 0 THEN Some(v.size) ELSE Undefined,
     color |-> IF vi > 0 THEN Some(v.color) ELSE Undefined]
\* the CartItem literal of addToCart and addToCartBySku; vi = 0: no variant
NewCartItem(key, prod, vi) ==
    LET v == prod.variants[vi] IN
    [key |-> key,
     productId |-> prod.id,
     variantId |-> IF vi > 0 THEN Some(v.id) ELSE Undefined,
     display |-> prod.name \o
                 (IF vi > 0 THEN " (" \o v.size \o "/" \o v.color \o ")" ELSE ""),
     unitPrice |-> IF vi > 0 THEN Coalesce(v.price, prod.price) ELSE prod.price,
     qty |-> 1,
     sku |-> IF vi > 0 THEN CompositeSku(prod, v) ELSE prod.sku,
     size |-> IF vi > 0 THEN Some(v.size) ELSE Undefined,
     color |-> IF vi > 0 THEN Some(v.color) ELSE Undefined]

\* addToCart(prodId, variantId?)
AddToCart(prodId, variantId) ==
    LET pi == FindProduct(products, prodId) IN
    /\ IF pi = 0
       THEN UNCHANGED <<cart, nextId>>
       ELSE LET prod == products[pi]
                vi == FindVariant(prod.variants, variantId)
            IN /\ cart' = Append(cart, NewCartItem(Uuid("key", nextId.key + 1), prod, vi))
               /\ nextId' = [nextId EXCEPT !.key = @ + 1]
    /\ alertMsg' = NoAlert
    /\ UNCHANGED <<settings, products, customers, sales, cartDiscount, cartTaxRate,
                   cartPayment, cartCustomerId, now, edge, initialStock,
                   forms, sync>>

\* products.find((p) => p.sku === sku || p.variants.some(...)): index of the
\* first match, 0 if none
HasComposite(p, sku) == \E j \in 1..Len(p.variants) : CompositeSku(p, p.variants[j]) = sku
FindProductBySku(ps, sku) ==
    LET hit(i) == ps[i].sku = sku \/ HasComposite(ps[i], sku)
    IN IF \E i \in 1..Len(ps) : hit(i)
       THEN CHOOSE i \in 1..Len(ps) : hit(i) /\ \A j \in 1..(i - 1) : ~hit(j)
       ELSE 0
\* prod.variants.find(composite === sku) || prod.variants[0], undefined when
\* the product has no variants: index, 0 for undefined
FindVariantBySku(p, sku) ==
    IF p.variants = <<>> THEN 0
    ELSE IF HasComposite(p, sku)
    THEN CHOOSE j \in 1..Len(p.variants) :
             /\ CompositeSku(p, p.variants[j]) = sku
             /\ \A k \in 1..(j - 1) : CompositeSku(p, p.variants[k]) # sku
    ELSE 1

\* addToCartBySku(sku)
AddToCartBySku(sku) ==
    LET pi == FindProductBySku(products, sku) IN
    /\ IF pi = 0
       THEN /\ alertMsg' = <<"addToCartBySku", "SKU not found">>
            /\ UNCHANGED <<cart, nextId>>
       ELSE LET prod == products[pi]
                vi == FindVariantBySku(prod, sku)
            IN /\ cart' = Append(cart, NewCartItem(Uuid("key", nextId.key + 1), prod, vi))
               /\ nextId' = [nextId EXCEPT !.key = @ + 1]
               /\ alertMsg' = NoAlert
    /\ UNCHANGED <<settings, products, customers, sales, cartDiscount, cartTaxRate,
                   cartPayment, cartCustomerId, now, edge, initialStock,
                   forms, sync>>

\* a quantity taken as entered
UpdatedQtyAsEntered(qty) == qty
\* updateCartQty(key, qty)
UpdatedQty(qty) == Max(1, qty)
UpdateCartQty(key, qty) ==
    /\ cart' = [i \in 1..Len(cart) |->
                  IF cart[i].key = key
                  THEN [cart[i] EXCEPT !.qty = UpdatedQty(qty)]
                  ELSE cart[i]]
    /\ alertMsg' = NoAlert
    /\ UNCHANGED <<settings, products, customers, sales, cartDiscount, cartTaxRate,
                   cartPayment, cartCustomerId, nextId, now, edge, initialStock,
                   forms, sync>>

\* removeCartItem(key)
RemoveCartItem(key) ==
    /\ cart' = SelectSeq(cart, LAMBDA c : c.key # key)
    /\ alertMsg' = NoAlert
    /\ UNCHANGED <<settings, products, customers, sales, cartDiscount, cartTaxRate,
                   cartPayment, cartCustomerId, nextId, now, edge, initialStock,
                   forms, sync>>

\* the onChange bindings of the discount, tax, payment and customer inputs
SetCartDiscount(d) ==
    /\ cartDiscount' = d
    /\ alertMsg' = NoAlert
    /\ UNCHANGED <<settings, products, customers, sales, cart, cartTaxRate,
                   cartPayment, cartCustomerId, nextId, now, edge, initialStock,
                   forms, sync>>
SetCartTaxRate(t) ==
    /\ cartTaxRate' = t
    /\ alertMsg' = NoAlert
    /\ UNCHANGED <<settings, products, customers, sales, cart, cartDiscount,
                   cartPayment, cartCustomerId, nextId, now, edge, initialStock,
                   forms, sync>>
SetCartCustomerId(c) ==
    /\ cartCustomerId' = c
    /\ alertMsg' = NoAlert
    /\ UNCHANGED <<settings, products, customers, sales, cart, cartDiscount,
                   cartTaxRate, cartPayment, nextId, now, edge, initialStock,
                   forms, sync>>

\* ------------------------------------------------------------ cartTotals
\* cart.reduce((s, it) => s + it.unitPrice * it.qty, 0)
RECURSIVE Subtotal(_)
Subtotal(c) ==
    IF c = <<>> THEN 0
    ELSE Subtotal(SubSeq(c, 1, Len(c) - 1)) + c[Len(c)].unitPrice * c[Len(c)].qty

\* the discount applied without the floor at 0
DiscountedNoFloor(subtotal, discount) == subtotal - discount
Discounted(subtotal, discount) == Max(0, subtotal - discount)
TaxAmount(discounted, taxRate) == (discounted * taxRate) \div 100

\* totals whose tax is computed on the subtotal, before the discount
CartTotalsTaxOnSubtotal(c, discount, taxRate) ==
    LET subtotal == Subtotal(c)
        discounted == Discounted(subtotal, discount)
        taxAmount == TaxAmount(subtotal, taxRate)
    IN [subtotal |-> subtotal, discounted |-> discounted,
        taxAmount |-> taxAmount, total |-> discounted + taxAmount]

CartTotals(c, discount, taxRate) ==
    LET subtotal == Subtotal(c)
        discounted == Discounted(subtotal, discount)
        taxAmount == TaxAmount(discounted, taxRate)
    IN [subtotal |-> subtotal, discounted |-> discounted,
        taxAmount |-> taxAmount, total |-> discounted + taxAmount]

\* ----------------------------------------------------- generateInvoiceId
\* an invoice id whose sequence number is the count of prior sales
GenerateInvoiceIdFromZero(salesLength, clock) ==
    LET y == IF clock.year % 100 < 10 THEN "0" \o ToString(clock.year % 100)
             ELSE ToString(clock.year % 100)
        m == IF clock.month < 10 THEN "0" \o ToString(clock.month)
             ELSE ToString(clock.month)
    IN "INV-" \o y \o m \o "-000" \o ToString(salesLength)
\* n.toString().padStart(width, "0")
RECURSIVE PadStart(_, _)
PadStart(str, width) ==
    IF Len(str) >= width THEN str ELSE PadStart("0" \o str, width)

GenerateInvoiceId(salesLength, clock) ==
    LET y == PadStart(ToString(clock.year % 100), 2)
        m == PadStart(ToString(clock.month), 2)
        seq == PadStart(ToString(salesLength + 1), 4)
    IN "INV-" \o y \o m \o "-" \o seq

\* dayjs().format("YYYY-MM-DDTHH:mm:ss"), to the month
CreatedAt(clock) ==
    ToString(clock.year) \o "-" \o PadStart(ToString(clock.month), 2)

\* --------------------------------------------------------------- checkout
\* a validation loop that looks at the first cart line only
FirstShortLineHeadOnly(c, ps) ==
    LET pi == FindProduct(ps, c[1].productId)
        vi == IF pi = 0 THEN 0 ELSE FindVariant(ps[pi].variants, c[1].variantId)
    IN IF c # <<>> /\ pi # 0 /\ vi # 0 /\ ps[pi].variants[vi].stock < c[1].qty
       THEN 1 ELSE 0

\* a validation loop that lets a line ask for one more than the stock
FirstShortLineLenient(c, ps) ==
    LET short(i) ==
            LET pi == FindProduct(ps, c[i].productId)
                vi == IF pi = 0 THEN 0 ELSE FindVariant(ps[pi].variants, c[i].variantId)
            IN pi # 0 /\ vi # 0 /\ ps[pi].variants[vi].stock + 1 < c[i].qty
    IN IF \E i \in 1..Len(c) : short(i)
       THEN CHOOSE i \in 1..Len(c) : short(i) /\ \A j \in 1..(i - 1) : ~short(j)
       ELSE 0

\* the validation loop: the index of the first cart line whose product and
\* variant resolve and whose variant has stock < qty; 0 when every line passes
FirstShortLine(c, ps) ==
    LET short(i) ==
            LET pi == FindProduct(ps, c[i].productId)
                vi == IF pi = 0 THEN 0 ELSE FindVariant(ps[pi].variants, c[i].variantId)
            IN pi # 0 /\ vi # 0 /\ ps[pi].variants[vi].stock < c[i].qty
    IN IF \E i \in 1..Len(c) : short(i)
       THEN CHOOSE i \in 1..Len(c) : short(i) /\ \A j \in 1..(i - 1) : ~short(j)
       ELSE 0

\* the stock named by the alert: that of the variant line i is bound to
ShortStock(c, ps, i) ==
    LET pi == FindProduct(ps, c[i].productId)
        vi == FindVariant(ps[pi].variants, c[i].variantId)
    IN ps[pi].variants[vi].stock

\* sale items priced from the catalog as it is at checkout
SaleItemsAtCatalogPrice(c, n) ==
    [i \in 1..Len(c) |->
        LET pi == FindProduct(products, c[i].productId)
            vi == IF pi = 0 THEN 0 ELSE FindVariant(products[pi].variants, c[i].variantId)
        IN [id |-> Uuid("item", n + i), productId |-> c[i].productId,
            variantId |-> c[i].variantId, sku |-> c[i].sku, name |-> c[i].display,
            size |-> c[i].size, color |-> c[i].color, qty |-> c[i].qty,
            price |-> IF pi = 0 THEN c[i].unitPrice
                      ELSE IF vi = 0 THEN products[pi].price
                      ELSE Coalesce(products[pi].variants[vi].price, products[pi].price)]]
\* cart.map((it) => ({ id: uuidv4(), ... })); ids follow the n handed out so far
SaleItemsOf(c, n) ==
    [i \in 1..Len(c) |->
        [id |-> Uuid("item", n + i), productId |-> c[i].productId,
         variantId |-> c[i].variantId, sku |-> c[i].sku, name |-> c[i].display,
         size |-> c[i].size, color |-> c[i].color, qty |-> c[i].qty,
         price |-> c[i].unitPrice]]

\* customers.find((c) => c.id === cartCustomerId) ?? undefined, when an id is set
CustomerSnapshot(cs, customerId) ==
    IF IsNullish(customerId) THEN Undefined
    ELSE IF \E i \in 1..Len(cs) : cs[i].id = customerId[2]
         THEN Some(cs[CHOOSE i \in 1..Len(cs) :
                        cs[i].id = customerId[2]
                        /\ \A j \in 1..(i - 1) : cs[j].id # customerId[2]])
         ELSE Undefined

\* relatedItems.find((ri) => ri.variantId === v.id): the first item of product p
\* bound to variant v; 0 if none
RelatedItem(items, p, v) ==
    LET rel(i) == items[i].productId = p.id /\ ~IsNullish(items[i].variantId)
                  /\ items[i].variantId = Some(v.id)
    IN IF \E i \in 1..Len(items) : rel(i)
       THEN CHOOSE i \in 1..Len(items) : rel(i) /\ \A j \in 1..(i - 1) : ~rel(j)
       ELSE 0

\* the setProducts updater of checkout
DecrementStock(ps, items) ==
    [pi \in 1..Len(ps) |->
        [ps[pi] EXCEPT !.variants =
            [vi \in 1..Len(ps[pi].variants) |->
                LET v == ps[pi].variants[vi]
                    it == RelatedItem(items, ps[pi], v)
                IN IF it # 0
                   THEN [v EXCEPT !.stock = Max(0, v.stock - items[it].qty)]
                   ELSE v]]]

\* a history that keeps the new sale only
OnlyNewSale(arr, sale) == <<sale>>
\* the setSales updater of checkout: (arr) => [sale, ...arr]
PrependSale(arr, sale) == <<sale>> \o arr

NewSale(saleItems) ==
    LET totals == CartTotals(cart, cartDiscount, cartTaxRate) IN
    [id |-> GenerateInvoiceId(Len(sales), now),
     createdAt |-> CreatedAt(now),
     items |-> saleItems,
     subtotal |-> totals.subtotal,
     discount |-> cartDiscount,
     taxRate |-> cartTaxRate,
     taxAmount |-> totals.taxAmount,
     total |-> totals.total,
     paymentMethod |-> cartPayment,
     customerId |-> cartCustomerId,
     customerSnapshot |-> CustomerSnapshot(customers, cartCustomerId),
     notes |-> Undefined]

\* a checkout that leaves the cart's discount and tax rate as the cashier set them
CheckoutKeepsRates ==
    LET short == FirstShortLine(cart, products) IN
    /\ IF cart = <<>>
       THEN /\ alertMsg' = <<"checkout", "Cart is empty">>
            /\ UNCHANGED <<products, sales, cart, nextId>>
       ELSE IF short # 0
       THEN /\ alertMsg' = <<"checkout", "Not enough stock", ShortStock(cart, products, short)>>
            /\ UNCHANGED <<products, sales, cart, nextId>>
       ELSE LET saleItems == SaleItemsOf(cart, nextId.item)
                sale == NewSale(saleItems)
            IN /\ products' = DecrementStock(products, saleItems)
               /\ sales' = PrependSale(sales, sale)
               /\ cart' = <<>>
               /\ nextId' = [nextId EXCEPT !.item = @ + Len(cart)]
               /\ alertMsg' = <<"checkout", "Sale completed">>
    /\ UNCHANGED <<settings, customers, cartDiscount, cartTaxRate, cartPayment,
                   cartCustomerId, now, edge, initialStock, forms, sync>>

Checkout ==
    LET short == FirstShortLine(cart, products) IN
    /\ IF cart = <<>>
       THEN /\ alertMsg' = <<"checkout", "Cart is empty">>
            /\ UNCHANGED <<products, sales, cart, cartDiscount, cartTaxRate, nextId>>
       ELSE IF short # 0
       THEN /\ alertMsg' = <<"checkout", "Not enough stock", ShortStock(cart, products, short)>>
            /\ UNCHANGED <<products, sales, cart, cartDiscount, cartTaxRate, nextId>>
       ELSE LET saleItems == SaleItemsOf(cart, nextId.item)
                sale == NewSale(saleItems)
            IN /\ products' = DecrementStock(products, saleItems)
               /\ sales' = PrependSale(sales, sale)
               /\ cart' = <<>>
               /\ cartDiscount' = 0
               /\ cartTaxRate' = settings.taxRateDefault
               /\ nextId' = [nextId EXCEPT !.item = @ + Len(cart)]
               /\ alertMsg' = <<"checkout", "Sale completed">>
    /\ UNCHANGED <<settings, customers, cartPayment, cartCustomerId, now, edge, initialStock,
                   forms, sync>>

\* ---------------------------------------------------------------- catalog
EmptyPForm ==
    [name |-> "", sku |-> "", category |-> Some(""), cost |-> 0, price |-> 0,
     variants |-> <<>>, notes |-> Some(""), imageUrl |-> Some("")]

\* the onChange bindings of the product form's name and SKU inputs
SetPFormName(n) ==
    /\ pForm' = [pForm EXCEPT !.name = n]
    /\ alertMsg' = NoAlert
    /\ UNCHANGED <<settings, products, customers, sales, cartState, nextId, now, edge,
                   initialStock, cForm, sync>>
SetPFormSku(k) ==
    /\ pForm' = [pForm EXCEPT !.sku = k]
    /\ alertMsg' = NoAlert
    /\ UNCHANGED <<settings, products, customers, sales, cartState, nextId, now, edge,
                   initialStock, cForm, sync>>
\* addVariantToForm()
AddVariantToForm ==
    /\ pForm' = [pForm EXCEPT !.variants =
                    Append(@, [id |-> Uuid("var", nextId.var + 1), size |-> "M",
                               color |-> "Black", stock |-> 0, price |-> Undefined])]
    /\ nextId' = [nextId EXCEPT !.var = @ + 1]
    /\ alertMsg' = NoAlert
    /\ UNCHANGED <<settings, products, customers, sales, cartState, now, edge,
                   initialStock, cForm, sync>>

\* removeVariantFromForm(id)
RemoveVariantFromForm(id) ==
    /\ pForm' = [pForm EXCEPT !.variants = SelectSeq(@, LAMBDA v : v.id # id)]
    /\ alertMsg' = NoAlert
    /\ UNCHANGED <<settings, products, customers, sales, cartState, nextId, now, edge,
                   initialStock, cForm, sync>>

\* the Stock input of a form variant: stock: Number(e.target.value)
SetFormVariantStock(id, n) ==
    /\ pForm' = [pForm EXCEPT !.variants =
                    [i \in 1..Len(@) |->
                        IF @[i].id = id THEN [@[i] EXCEPT !.stock = n] ELSE @[i]]]
    /\ alertMsg' = NoAlert
    /\ UNCHANGED <<settings, products, customers, sales, cartState, nextId, now, edge,
                   initialStock, cForm, sync>>

\* createProduct()
CreateProduct ==
    /\ IF pForm.name = "" \/ pForm.sku = ""
       THEN /\ alertMsg' = <<"createProduct", "Please fill product name and SKU">>
            /\ UNCHANGED <<products, pForm, nextId>>
       ELSE /\ products' = <<[id |-> Uuid("prod", nextId.prod + 1)] @@ pForm>> \o products
            /\ pForm' = EmptyPForm
            /\ nextId' = [nextId EXCEPT !.prod = @ + 1]
            /\ alertMsg' = NoAlert
    /\ UNCHANGED <<settings, customers, sales, cartState, now, edge, initialStock,
                   cForm, sync>>

\* updateProductStock(prodId, variantId, delta)
AdjustedStock(stock, delta) == Max(0, stock + delta)
UpdateProductStock(prodId, variantId, delta) ==
    /\ products' =
          [pi \in 1..Len(products) |->
              IF products[pi].id # prodId THEN products[pi]
              ELSE [products[pi] EXCEPT !.variants =
                       [vi \in 1..Len(@) |->
                           IF @[vi].id = variantId
                           THEN [@[vi] EXCEPT !.stock = AdjustedStock(@, delta)]
                           ELSE @[vi]]]]
    /\ alertMsg' = NoAlert
    /\ UNCHANGED <<settings, customers, sales, cartState, nextId, now, edge, initialStock,
                   forms, sync>>

\* -------------------------------------------------------------- customers
EmptyCForm == [name |-> "", phone |-> Some(""), email |-> Some(""), notes |-> Some("")]

SetCFormName(n) ==
    /\ cForm' = [cForm EXCEPT !.name = n]
    /\ alertMsg' = NoAlert
    /\ UNCHANGED <<settings, products, customers, sales, cartState, nextId, now, edge,
                   initialStock, pForm, sync>>

\* addCustomer()
AddCustomer ==
    /\ IF cForm.name = ""
       THEN /\ alertMsg' = <<"addCustomer", "Customer name required">>
            /\ UNCHANGED <<customers, cForm, nextId>>
       ELSE /\ customers' = <<[id |-> Uuid("cust", nextId.cust + 1)] @@ cForm>> \o customers
            /\ cForm' = EmptyCForm
            /\ nextId' = [nextId EXCEPT !.cust = @ + 1]
            /\ alertMsg' = NoAlert
    /\ UNCHANGED <<settings, products, sales, cartState, now, edge, initialStock,
                   pForm, sync>>

\* -------------------------------------------------------------- cloudSync
\* useSupabase(settings): a client exists when both credentials are non-empty
SupabaseConfigured == settings.supabaseUrl # "" /\ settings.supabaseAnonKey # ""

Tables == <<"products", "product_variants", "customers", "sales", "sale_items">>
EmptyRemote == [t \in {Tables[i] : i \in 1..Len(Tables)} |-> <<>>]

\* flatMap
RECURSIVE Flatten(_)
Flatten(ss) == IF ss = <<>> THEN <<>> ELSE Head(ss) \o Flatten(Tail(ss))

\* the row literals of the push branch; a nullable column holds Null or Some(x)
ProdRows(ps) ==
    [i \in 1..Len(ps) |->
        [id |-> ps[i].id, name |-> ps[i].name, sku |-> ps[i].sku,
         category |-> OrNull(ps[i].category), cost |-> Some(ps[i].cost),
         price |-> Some(ps[i].price), notes |-> OrNull(ps[i].notes),
         image_url |-> OrNull(ps[i].imageUrl)]]
VarRows(ps) ==
    Flatten([i \in 1..Len(ps) |->
        [j \in 1..Len(ps[i].variants) |->
            LET v == ps[i].variants[j] IN
            [id |-> v.id, product_id |-> ps[i].id, size |-> Some(v.size),
             color |-> Some(v.color), stock |-> Some(v.stock),
             price |-> OrNull(v.price)]]])
CustRows(cs) ==
    [i \in 1..Len(cs) |->
        [id |-> cs[i].id, name |-> cs[i].name, phone |-> OrNull(cs[i].phone),
         email |-> OrNull(cs[i].email), notes |-> OrNull(cs[i].notes)]]
SaleRows(ss) ==
    [i \in 1..Len(ss) |->
        [id |-> ss[i].id, created_at |-> Some(ss[i].createdAt),
         subtotal |-> Some(ss[i].subtotal), discount |-> Some(ss[i].discount),
         tax_rate |-> Some(ss[i].taxRate), tax_amount |-> Some(ss[i].taxAmount),
         total |-> Some(ss[i].total), payment_method |-> Some(ss[i].paymentMethod),
         customer_id |-> OrNull(ss[i].customerId), notes |-> OrNull(ss[i].notes)]]
ItemRows(ss) ==
    Flatten([i \in 1..Len(ss) |->
        [j \in 1..Len(ss[i].items) |->
            LET it == ss[i].items[j] IN
            [id |-> it.id, sale_id |-> ss[i].id, product_id |-> it.productId,
             variant_id |-> OrNull(it.variantId), sku |-> Some(it.sku),
             name |-> Some(it.name), size |-> OrNull(it.size),
             color |-> OrNull(it.color), qty |-> Some(it.qty),
             price |-> Some(it.price)]]])

\* the rows push sends to table number k, in the order of the upserts
RowsFor(k, data) ==
    CASE k = 1 -> ProdRows(data.products)
      [] k = 2 -> VarRows(data.products)
      [] k = 3 -> CustRows(data.customers)
      [] k = 4 -> SaleRows(data.sales)
      [] k = 5 -> ItemRows(data.sales)

\* a plain insert: every row is appended
UpsertAsInsert(rows, new) == rows \o new

\* supabase.from(t).upsert(rows): insert or update by primary key id
UpsertOne(rows, r) ==
    IF \E i \in 1..Len(rows) : rows[i].id = r.id
    THEN [i \in 1..Len(rows) |-> IF rows[i].id = r.id THEN r ELSE rows[i]]
    ELSE Append(rows, r)
RECURSIVE Upsert(_, _)
Upsert(rows, new) ==
    IF new = <<>> THEN rows ELSE Upsert(UpsertOne(rows, Head(new)), Tail(new))

\* pc: 0 when no push is in flight, else the number of the table whose upsert is
\* awaited; data: the argument of the latest cloudSync(..., "push") call.
\* History: ok, that call returned { ok: true }; again, that call was made
\* with the data of the call before it, which had returned { ok: true };
\* n, the number of calls so far
PushIdle == [pc |-> 0, data |-> <<>>, ok |-> FALSE, again |-> FALSE, n |-> 0]

\* pushToCloud(): the guard, then cloudSync(..., "push") up to its first await
PushToCloud ==
    /\ push.pc = 0
    /\ IF ~SupabaseConfigured
       THEN /\ alertMsg' = <<"pushToCloud", "Add Supabase URL & Key in Settings first.">>
            /\ UNCHANGED push
       ELSE /\ LET data == [products |-> products, customers |-> customers,
                                sales |-> sales]
               IN push' = [pc |-> 1, data |-> data, ok |-> FALSE,
                           again |-> push.ok /\ push.data = data, n |-> push.n + 1]
            /\ alertMsg' = NoAlert
    /\ UNCHANGED <<settings, products, customers, sales, cartState, nextId, now, edge,
                   initialStock, forms, remote, pull>>

\* a push that upserts each child table before its parent table
PushUpsertOkChildrenFirst ==
    LET k == <<2, 1, 3, 5, 4>>[push.pc] IN
    /\ push.pc \in 1..5
    /\ remote' = [remote EXCEPT ![Tables[k]] = Upsert(@, RowsFor(k, push.data))]
    /\ IF push.pc < 5
       THEN /\ push' = [push EXCEPT !.pc = @ + 1]
            /\ alertMsg' = NoAlert
       ELSE /\ push' = [push EXCEPT !.pc = 0, !.ok = TRUE]
            /\ alertMsg' = <<"pushToCloud", "Pushed to cloud">>
    /\ UNCHANGED <<settings, products, customers, sales, cartState, nextId, now, edge,
                   initialStock, forms, pull>>

\* the upsert awaited at push.pc resolves without error: the next one is issued,
\* or the push returns { ok: true }
PushUpsertOk ==
    /\ push.pc \in 1..5
    /\ remote' = [remote EXCEPT ![Tables[push.pc]] =
                     Upsert(@, RowsFor(push.pc, push.data))]
    /\ IF push.pc < 5
       THEN /\ push' = [push EXCEPT !.pc = @ + 1]
            /\ alertMsg' = NoAlert
       ELSE /\ push' = [push EXCEPT !.pc = 0, !.ok = TRUE]
            /\ alertMsg' = <<"pushToCloud", "Pushed to cloud">>
    /\ UNCHANGED <<settings, products, customers, sales, cartState, nextId, now, edge,
                   initialStock, forms, pull>>

\* an upsert error that is not thrown: the push goes on to the next table
PushUpsertErrorIgnored ==
    /\ push.pc \in 1..5
    /\ push' = [push EXCEPT !.pc = IF @ < 5 THEN @ + 1 ELSE 0]
    /\ alertMsg' = <<"pushToCloud", "Cloud push failed", Tables[push.pc]>>
    /\ UNCHANGED <<settings, products, customers, sales, cartState, nextId, now, edge,
                   initialStock, forms, remote, pull>>

\* the upsert awaited at push.pc resolves with an error: throw, caught by
\* pushToCloud
PushUpsertError ==
    /\ push.pc \in 1..5
    /\ push' = [push EXCEPT !.pc = 0]
    /\ alertMsg' = <<"pushToCloud", "Cloud push failed", Tables[push.pc]>>
    /\ UNCHANGED <<settings, products, customers, sales, cartState, nextId, now, edge,
                   initialStock, forms, remote, pull>>

\* the pull branch: nested local shapes rebuilt from the fetched rows
PulledVariant(v) ==
    [id |-> v.id, size |-> Coalesce(v.size, ""), color |-> Coalesce(v.color, ""),
     stock |-> Coalesce(v.stock, 0), price |-> OrUndefined(v.price)]
\* a rebuild that hands every variant row to every product
PulledProductsNoKey(prods, vrows) ==
    [i \in 1..Len(prods) |->
        LET p == prods[i]
        IN [id |-> p.id, name |-> p.name, sku |-> p.sku,
            category |-> OrUndefined(p.category), cost |-> Coalesce(p.cost, 0),
            price |-> Coalesce(p.price, 0), notes |-> OrUndefined(p.notes),
            imageUrl |-> OrUndefined(p.image_url),
            variants |-> [j \in 1..Len(vrows) |-> PulledVariant(vrows[j])]]]
\* byProd[v.product_id]?.variants.push(pv): byProd keeps, for an id, the last
\* product carrying it
PulledProducts(prods, vrows) ==
    [i \in 1..Len(prods) |->
        LET p == prods[i]
            last == \A k \in (i + 1)..Len(prods) : prods[k].id # p.id
            mine == SelectSeq(vrows, LAMBDA v : last /\ v.product_id = p.id)
        IN [id |-> p.id, name |-> p.name, sku |-> p.sku,
            category |-> OrUndefined(p.category), cost |-> Coalesce(p.cost, 0),
            price |-> Coalesce(p.price, 0), notes |-> OrUndefined(p.notes),
            imageUrl |-> OrUndefined(p.image_url),
            variants |-> [j \in 1..Len(mine) |-> PulledVariant(mine[j])]]]
PulledCustomers(custs) ==
    [i \in 1..Len(custs) |->
        [id |-> custs[i].id, name |-> custs[i].name,
         phone |-> OrUndefined(custs[i].phone), email |-> OrUndefined(custs[i].email),
         notes |-> OrUndefined(custs[i].notes)]]
PulledItem(it) ==
    [id |-> it.id, productId |-> it.product_id,
     variantId |-> OrUndefined(it.variant_id), sku |-> Coalesce(it.sku, ""),
     name |-> Coalesce(it.name, ""), size |-> OrUndefined(it.size),
     color |-> OrUndefined(it.color), qty |-> Coalesce(it.qty, 0),
     price |-> Coalesce(it.price, 0)]
\* Object.values(saleMap): one Sale per id, at the place of the id's first row and
\* with the fields of its last row; the Sale literal has no customerSnapshot
PulledSales(rows, items, clock) ==
    LET firsts == SelectSeq([i \in 1..Len(rows) |-> i],
                      LAMBDA i : \A k \in 1..(i - 1) : rows[k].id # rows[i].id)
        lastRow(id) == rows[CHOOSE k \in 1..Len(rows) :
                          rows[k].id = id /\ \A m \in (k + 1)..Len(rows) : rows[m].id # id]
    IN [n \in 1..Len(firsts) |->
          LET r == lastRow(rows[firsts[n]].id)
              mine == SelectSeq(items, LAMBDA it : it.sale_id = r.id)
          IN [id |-> r.id,
              createdAt |-> Coalesce(r.created_at, CreatedAt(clock)),
              items |-> [j \in 1..Len(mine) |-> PulledItem(mine[j])],
              subtotal |-> Coalesce(r.subtotal, 0),
              discount |-> Coalesce(r.discount, 0),
              taxRate |-> Coalesce(r.tax_rate, 0),
              taxAmount |-> Coalesce(r.tax_amount, 0),
              total |-> Coalesce(r.total, 0),
              paymentMethod |-> Coalesce(r.payment_method, "cash"),
              customerId |-> OrUndefined(r.customer_id),
              customerSnapshot |-> Undefined,
              notes |-> OrUndefined(r.notes)]]

Pending == <<"pending">>
\* pc: 0 when no pull is in flight; 1..5 while responses are awaited, the number
\* of the next table to answer; 6 when Promise.all has all five; res: the answers
\* of the latest cloudSync(..., "pull") call; n: history, the number of such calls
\* so far
PullIdle == [pc |-> 0, res |-> <<>>, n |-> 0]

\* pullFromCloud(): the guard, then cloudSync(..., "pull") up to its await of the
\* five select("*") requests
PullFromCloud ==
    /\ pull.pc = 0
    /\ IF ~SupabaseConfigured
       THEN /\ alertMsg' = <<"pullFromCloud", "Add Supabase URL & Key in Settings first.">>
            /\ UNCHANGED pull
       ELSE /\ pull' = [pc |-> 1, res |-> [k \in 1..5 |-> Pending], n |-> pull.n + 1]
            /\ alertMsg' = NoAlert
    /\ UNCHANGED <<settings, products, customers, sales, cartState, nextId, now, edge,
                   initialStock, forms, remote, push>>

\* one select("*") resolves, with the table's rows as they are now or with an
\* error. The five answers are taken in table order: against the writes of a
\* push, which come in the same order, every mix of tables read before and
\* after their write is still produced.
PullFetchOk ==
    /\ pull.pc \in 1..5
    /\ pull' = [pull EXCEPT !.pc = @ + 1,
                             !.res[pull.pc] = <<"data", remote[Tables[pull.pc]]>>]
    /\ alertMsg' = NoAlert
    /\ UNCHANGED <<settings, products, customers, sales, cartState, nextId, now, edge,
                   initialStock, forms, remote, push>>
PullFetchError ==
    /\ pull.pc \in 1..5
    /\ pull' = [pull EXCEPT !.pc = @ + 1, !.res[pull.pc] = <<"error">>]
    /\ alertMsg' = NoAlert
    /\ UNCHANGED <<settings, products, customers, sales, cartState, nextId, now, edge,
                   initialStock, forms, remote, push>>

\* a settle that installs whatever was fetched, table by table
PullSettlePartial ==
    /\ pull.pc = 6
    /\ IF \E k \in 1..5 : pull.res[k] = <<"error">>
       THEN /\ alertMsg' = <<"pullFromCloud", "Cloud pull failed">>
            /\ products' = IF pull.res[1] # <<"error">> /\ pull.res[2] # <<"error">>
                           THEN PulledProducts(pull.res[1][2], pull.res[2][2])
                           ELSE products
            /\ UNCHANGED <<customers, sales>>
       ELSE /\ products' = PulledProducts(pull.res[1][2], pull.res[2][2])
            /\ customers' = PulledCustomers(pull.res[3][2])
            /\ sales' = PulledSales(pull.res[4][2], pull.res[5][2], now)
            /\ alertMsg' = <<"pullFromCloud", "Pulled from cloud">>
    /\ pull' = [pull EXCEPT !.pc = 0]
    /\ UNCHANGED <<settings, cartState, nextId, now, edge, initialStock, forms, remote, push>>

\* a settle that merges: what was fetched, then the local entries it lacks
PullSettleMerge ==
    /\ pull.pc = 6
    /\ IF \E k \in 1..5 : pull.res[k] = <<"error">>
       THEN /\ alertMsg' = <<"pullFromCloud", "Cloud pull failed">>
            /\ UNCHANGED <<products, customers, sales>>
       ELSE LET ps == PulledProducts(pull.res[1][2], pull.res[2][2])
                cs == PulledCustomers(pull.res[3][2])
                ss == PulledSales(pull.res[4][2], pull.res[5][2], now)
            IN /\ products' = ps \o SelectSeq(products,
                                   LAMBDA p : \A i \in 1..Len(ps) : ps[i].id # p.id)
               /\ customers' = cs \o SelectSeq(customers,
                                   LAMBDA c : \A i \in 1..Len(cs) : cs[i].id # c.id)
               /\ sales' = ss \o SelectSeq(sales,
                                   LAMBDA x : \A i \in 1..Len(ss) : ss[i].id # x.id)
               /\ alertMsg' = <<"pullFromCloud", "Pulled from cloud">>
    /\ pull' = [pull EXCEPT !.pc = 0]
    /\ UNCHANGED <<settings, cartState, nextId, now, edge, initialStock, forms, remote, push>>

\* Promise.all has resolved: throw on any error, else rebuild and, back in
\* pullFromCloud, install the three collections
PullSettle ==
    /\ pull.pc = 6
    /\ IF \E k \in 1..5 : pull.res[k] = <<"error">>
       THEN /\ alertMsg' = <<"pullFromCloud", "Cloud pull failed">>
            /\ UNCHANGED <<products, customers, sales>>
       ELSE /\ products' = PulledProducts(pull.res[1][2], pull.res[2][2])
            /\ customers' = PulledCustomers(pull.res[3][2])
            /\ sales' = PulledSales(pull.res[4][2], pull.res[5][2], now)
            /\ alertMsg' = <<"pullFromCloud", "Pulled from cloud">>
    /\ pull' = [pull EXCEPT !.pc = 0]
    /\ UNCHANGED <<settings, cartState, nextId, now, edge, initialStock, forms, remote, push>>

\* --------------------------------------------------------------- import
\* a backup document: parsed is whether JSON.parse returns an object; each field
\* is Undefined (absent), Null, or Some(value)
Truthy(o) == ~IsNullish(o)
\* if (data.f) setF(data.f)
Imported(field, current) == IF Truthy(field) THEN field[2] ELSE current
\* an import that replaces wholesale: a document without sales empties the history
ImportJSONWholesale(doc) ==
    /\ IF doc.parsed
       THEN /\ settings' = Imported(doc.settings, settings)
            /\ products' = Imported(doc.products, products)
            /\ customers' = Imported(doc.customers, customers)
            /\ sales' = Imported(doc.sales, <<>>)
            /\ alertMsg' = <<"importJSON", "Import successful">>
       ELSE /\ alertMsg' = <<"importJSON", "Invalid JSON file">>
            /\ UNCHANGED <<settings, products, customers, sales>>
    /\ UNCHANGED <<cartState, nextId, now, edge, initialStock, forms, sync>>
\* reader.onload of importJSON(ev), for the file the user chose
ImportJSON(doc) ==
    /\ IF doc.parsed
       THEN /\ settings' = Imported(doc.settings, settings)
            /\ products' = Imported(doc.products, products)
            /\ customers' = Imported(doc.customers, customers)
            /\ sales' = Imported(doc.sales, sales)
            /\ alertMsg' = <<"importJSON", "Import successful">>
       ELSE /\ alertMsg' = <<"importJSON", "Invalid JSON file">>
            /\ UNCHANGED <<settings, products, customers, sales>>
    /\ UNCHANGED <<cartState, nextId, now, edge, initialStock, forms, sync>>

\* ----------------------------------------------------------- middleware.ts
\* a text is a sequence of pieces; a piece is one of the characters " ", ","
\* and ":" or a run of other characters. "" is <<>>.
\* String.prototype.split(sep)
RECURSIVE Split(_, _)
Split(text, sep) ==
    IF \A i \in 1..Len(text) : text[i] # sep
    THEN <<text>>
    ELSE LET k == CHOOSE i \in 1..Len(text) :
                      text[i] = sep /\ \A j \in 1..(i - 1) : text[j] # sep
         IN <<SubSeq(text, 1, k - 1)>> \o Split(SubSeq(text, k + 1, Len(text)), sep)

\* String.prototype.trim()
RECURSIVE Trim(_)
Trim(text) ==
    IF text # <<>> /\ Head(text) = " " THEN Trim(Tail(text))
    ELSE IF text # <<>> /\ text[Len(text)] = " " THEN Trim(SubSeq(text, 1, Len(text) - 1))
    ELSE text

\* atob(encoded): the decoded text, or Thrown when encoded is not base64
Thrown == <<"thrown">>
Decoded ==
    [e \in {"YWRtaW46czNjcmV0", "Og==", "YWRtaW46d3Jvbmc=", "YWRtaW4=",
            "YWRtaW46czNjcmV0OmV4dHJh"} |->
        CASE e = "YWRtaW46czNjcmV0" -> <<"admin", ":", "s3cret">>
          [] e = "Og==" -> <<":">>
          [] e = "YWRtaW46d3Jvbmc=" -> <<"admin", ":", "wrong">>
          [] e = "YWRtaW4=" -> <<"admin">>
          [] e = "YWRtaW46czNjcmV0OmV4dHJh" -> <<"admin", ":", "s3cret", ":", "extra">>]
Atob(encoded) ==
    IF Len(encoded) = 1 /\ encoded[1] \in DOMAIN Decoded
    THEN Some(Decoded[encoded[1]])
    ELSE Thrown

\* the module constants, read from the environment env; x || "" is "" for an
\* unset and for an empty x
USER(env) == Coalesce(env.BASIC_USER, <<>>)
PASS(env) == Coalesce(env.BASIC_PASS, <<>>)
IP_ALLOWLIST(env) ==
    LET parts == Split(Coalesce(env.IP_ALLOWLIST, <<>>), ",")
        NonEmpty(t) == t # <<>>
    IN SelectSeq([i \in 1..Len(parts) |-> Trim(parts[i])], NonEmpty)

\* req.ip || req.headers.get("x-forwarded-for")?.split(",")[0]?.trim() || ""
ClientIp(req) ==
    IF Coalesce(req.ip, <<>>) # <<>> THEN req.ip[2]
    ELSE IF IsNullish(req.forwardedFor) THEN <<>>
    ELSE Trim(Split(req.forwardedFor[2], ",")[1])

\* middleware(req): "next" for NextResponse.next(), "401" for unauthorized()
Middleware(env, req) ==
    LET \* the allowlist block: its only statement is an if with an empty body
        listed == IP_ALLOWLIST(env) # <<>>
                  /\ \E i \in 1..Len(IP_ALLOWLIST(env)) : IP_ALLOWLIST(env)[i] = ClientIp(req)
        parts == Split(Coalesce(req.authorization, <<>>), " ")
        scheme == parts[1]
        encoded == IF Len(parts) >= 2 THEN parts[2] ELSE <<>>
        decoded == Atob(encoded)
        up == Split(decoded[2], ":")
    IN IF scheme = <<"Basic">> /\ encoded # <<>>
       THEN IF decoded = Thrown THEN "401"
            ELSE IF up[1] = USER(env) /\ Len(up) >= 2 /\ up[2] = PASS(env)
                 THEN "next"
                 ELSE "401"
       ELSE "401"

\* the environments and requests of the model: BASIC_USER and BASIC_PASS both
\* set or both unset, IP_ALLOWLIST unset or naming two addresses
Envs ==
    {[BASIC_USER |-> c[1], BASIC_PASS |-> c[2], IP_ALLOWLIST |-> a] :
        c \in {<<Some(<<"admin">>), Some(<<"s3cret">>)>>, <<Undefined, Undefined>>},
        a \in {Undefined, Some(<<"203.0.113.10", ",", " ", "198.51.100.4", ",">>)}}
Requests ==
    [ip : {Undefined, Some(<<"203.0.113.10">>), Some(<<"192.0.2.7">>)},
     forwardedFor : {Null, Some(<<"198.51.100.4", ",", " ", "10.0.0.1">>)},
     authorization : {Null, Some(<<"Basic">>), Some(<<"Basic", " ", "%%%">>),
                      Some(<<"Bearer", " ", "YWRtaW46czNjcmV0">>)}
                     \cup {Some(<<"Basic", " ", e>>) : e \in DOMAIN Decoded}]

\* no request served yet
EdgeIdle ==
    [env |-> [BASIC_USER |-> Some(<<"admin">>), BASIC_PASS |-> Some(<<"s3cret">>),
              IP_ALLOWLIST |-> Undefined],
     req |-> [ip |-> Undefined, forwardedFor |-> Null, authorization |-> Null],
     res |-> ""]

\* the edge runtime hands a request to middleware and keeps its response
Serve(req) ==
    /\ edge' = [edge EXCEPT !.req = req, !.res = Middleware(edge.env, req)]
    /\ UNCHANGED <<settings, products, customers, sales, cartState, nextId, now,
                   alertMsg, initialStock, forms, sync>>

\* ------------------------------------------------------------ the program
\* useState initialisers: the four collections come from localStorage
LoadedSettings ==
    {[storeName |-> "ClothKeep Store", currency |-> "NPR", taxRateDefault |-> 13,
      lowStockThreshold |-> 5, supabaseUrl |-> u, supabaseAnonKey |-> u] :
        u \in {"", "https://ck.supabase.co"}}

StockAtLoad(ps) ==
    [vid \in VariantIdsOf(ps) |-> StockOf(ps, vid)]

Init ==
    /\ settings \in LoadedSettings
    /\ products \in LoadedCatalogs
    /\ customers = <<LoadedCustomer>>
    /\ sales = <<>>
    /\ cart = <<>>
    /\ cartDiscount = 0
    /\ cartTaxRate = settings.taxRateDefault
    /\ cartPayment = "cash"
    /\ cartCustomerId = Undefined
    /\ nextId = NoIdsYet
    /\ now = [year |-> 2025, month |-> 6]
    /\ alertMsg = NoAlert
    /\ initialStock = StockAtLoad(products)
    /\ pForm = EmptyPForm
    /\ cForm = EmptyCForm
    /\ remote = EmptyRemote
    /\ push = PushIdle
    /\ pull = PullIdle
    /\ edge = EdgeIdle

CartKeys == {cart[i].key : i \in 1..Len(cart)}
CustomerIds == {customers[i].id : i \in 1..Len(customers)}
VariantChoices == {Undefined} \cup {Some(v) : v \in VariantIdsOf(products)}

\* the handlers of the POS tab, within the bounds
AddStep ==
    \E prodId \in ProductIdsOf(products) \cup {NoSuchId}, variantId \in VariantChoices :
        Len(cart) < MaxCart /\ nextId.key < MaxIds /\ AddToCart(prodId, variantId)
QtyStep == \E key \in CartKeys, qty \in (-1)..MaxQty : UpdateCartQty(key, qty)
RemoveStep == \E key \in CartKeys : RemoveCartItem(key)
DiscountStep == \E d \in Discounts : SetCartDiscount(d)
TaxStep == \E t \in TaxRates : SetCartTaxRate(t)
CustomerStep ==
    \E c \in {Undefined} \cup {Some(id) : id \in CustomerIds} : SetCartCustomerId(c)
CheckoutStep ==
    Len(sales) < MaxSales /\ Checkout

Next ==
    \/ AddStep
    \/ QtyStep
    \/ RemoveStep
    \/ DiscountStep
    \/ TaxStep
    \/ CheckoutStep

InitLocal == Init /\ ~SupabaseConfigured

\* the POS tab alone: cart handlers and checkout over a loaded catalog
Spec == InitLocal /\ [][Next]_vars

\* the handlers of the Products and Customers tabs, within the bounds
ProductNames == {"Polo"}
ProductSkus == {"POLO-001"}
FormStocks == {-1, 2}
CustomerNames == {"Bina"}
FormVariantIds == {pForm.variants[i].id : i \in 1..Len(pForm.variants)}

FormNameStep == \E n \in ProductNames : SetPFormName(n)
FormSkuStep == \E k \in ProductSkus : SetPFormSku(k)
FormAddVariantStep ==
    nextId.var < MaxFormVariants /\ AddVariantToForm
FormRemoveVariantStep == \E id \in FormVariantIds : RemoveVariantFromForm(id)
FormStockStep == \E id \in FormVariantIds, n \in FormStocks : SetFormVariantStock(id, n)
CreateStep == Len(products) < MaxProducts /\ CreateProduct
StockStep ==
    \E pi \in 1..Len(products) :
        \E vi \in 1..Len(products[pi].variants), delta \in {-1, 1} :
            /\ products[pi].variants[vi].stock + delta <= MaxStock
            /\ UpdateProductStock(products[pi].id, products[pi].variants[vi].id, delta)
CFormNameStep == \E n \in CustomerNames : SetCFormName(n)
AddCustomerStep == Len(customers) < MaxCustomers /\ AddCustomer

RegisterAddStep ==
    \E prodId \in ProductIdsOf(products) \cup {NoSuchId}, variantId \in VariantChoices :
        Len(cart) < MaxRegisterCart /\ nextId.key < MaxIds /\ AddToCart(prodId, variantId)
RegisterCheckoutStep == Len(sales) < MaxRegisterSales /\ Checkout

RegisterNext ==
    \/ RegisterAddStep
    \/ RemoveStep
    \/ RegisterCheckoutStep
    \/ FormNameStep
    \/ FormSkuStep
    \/ FormAddVariantStep
    \/ FormRemoveVariantStep
    \/ FormStockStep
    \/ CreateStep
    \/ StockStep
    \/ CFormNameStep
    \/ AddCustomerStep

\* the register without the cloud: cart, checkout, catalog and customer handlers
InitRegister == InitLocal /\ products = <<LoadedProduct1(MaxStock, 1), LoadedProduct2>>
SpecRegister == InitRegister /\ [][RegisterNext]_vars

\* the SKU box of the POS tab over a catalog that grows by createProduct
SkuInputs == {"TEE-001", "TEE-001-M-Black", "TEE-001-L-White", "CAP-001", "UNKNOWN"}
NewProductSkus == {"POLO-001", "TEE-001-M-Black", "TEE-001"}
SkuStep ==
    \E sku \in SkuInputs :
        Len(cart) < MaxCart /\ nextId.key < MaxIds /\ AddToCartBySku(sku)
SkuFormSkuStep == \E k \in NewProductSkus : SetPFormSku(k)
SkuCreateStep == nextId.prod < MaxSkuProducts /\ CreateProduct

SkuNext ==
    \/ SkuStep
    \/ RemoveStep
    \/ FormNameStep
    \/ SkuFormSkuStep
    \/ SkuCreateStep

SpecSku == InitRegister /\ [][SkuNext]_vars

\* the register with backups: cart, checkout, stock buttons and import
ImportedSettings ==
    [storeName |-> "ClothKeep Store", currency |-> "NPR", taxRateDefault |-> 5,
     lowStockThreshold |-> 5, supabaseUrl |-> "", supabaseAnonKey |-> ""]
ImportedProduct ==
    [id |-> "prod-101", name |-> "Tee", sku |-> "TEE-001", category |-> Some("tops"),
     cost |-> 20000, price |-> 30000, notes |-> Undefined, imageUrl |-> Undefined,
     variants |-> <<[id |-> "var-111", size |-> "M", color |-> "Black", stock |-> 1,
                     price |-> Some(90000)]>>]
ImportedSale ==
    [id |-> "INV-2505-0001", createdAt |-> "2025-05", items |-> <<>>, subtotal |-> 0,
     discount |-> 0, taxRate |-> 0, taxAmount |-> 0, total |-> 0,
     paymentMethod |-> "cash", customerId |-> Undefined,
     customerSnapshot |-> Undefined, notes |-> Undefined]
Field(values) == {Undefined, Null} \cup {Some(v) : v \in values}
Documents ==
    [parsed : {TRUE},
     settings : Field({ImportedSettings}),
     products : Field({<<ImportedProduct>>}),
     customers : Field({<<>>}),
     sales : Field({<<ImportedSale>>})]
    \cup {[parsed |-> FALSE, settings |-> Undefined, products |-> Undefined,
           customers |-> Undefined, sales |-> Undefined]}

ImportStep == \E doc \in Documents : ImportJSON(doc)
ImportAddStep ==
    \E pi \in 1..Len(products) : \E vi \in 1..Len(products[pi].variants) :
        /\ Len(cart) < MaxCart /\ nextId.key < MaxIds
        /\ AddToCart(products[pi].id, Some(products[pi].variants[vi].id))
ImportCheckoutStep == nextId.item < MaxImportItems /\ Checkout

ImportNext ==
    \/ ImportAddStep
    \/ QtyStep
    \/ StockStep
    \/ ImportStep
    \/ ImportCheckoutStep

SpecImport == InitRegister /\ [][ImportNext]_vars

\* backups alone: one-line carts, one checkout, import
BackupNext ==
    \/ RegisterAddStep
    \/ ImportCheckoutStep
    \/ ImportStep

SpecBackup == InitRegister /\ [][BackupNext]_vars

\* the till on several dates, over histories loaded from localStorage
Clocks == {[year |-> 2025, month |-> 6], [year |-> 2025, month |-> 12],
           [year |-> 2009, month |-> 1]}
LoadedHistory(n) == [i \in 1..n |-> [ImportedSale EXCEPT !.id = "OLD-" \o ToString(i)]]
InitInvoice ==
    /\ settings \in LoadedSettings /\ ~SupabaseConfigured
    /\ products = <<LoadedProduct1(MaxStock, 1), LoadedProduct2>>
    /\ customers = <<LoadedCustomer>>
    /\ sales \in {LoadedHistory(n) : n \in {0, 3, 9}}
    /\ cart = <<>>
    /\ cartDiscount = 0
    /\ cartTaxRate = settings.taxRateDefault
    /\ cartPayment = "cash"
    /\ cartCustomerId = Undefined
    /\ nextId = NoIdsYet
    /\ now \in Clocks
    /\ alertMsg = NoAlert
    /\ initialStock = StockAtLoad(products)
    /\ pForm = EmptyPForm
    /\ cForm = EmptyCForm
    /\ remote = EmptyRemote
    /\ push = PushIdle
    /\ pull = PullIdle
    /\ edge = EdgeIdle
InvoiceCheckoutStep == nextId.item < MaxInvoiceSales /\ Checkout

InvoiceNext ==
    \/ RegisterAddStep
    \/ InvoiceCheckoutStep

SpecInvoice == InitInvoice /\ [][InvoiceNext]_vars

\* the register with the cloud: one-line carts, checkout, push and pull
SyncAddStep ==
    \E pi \in 1..Len(products) : \E vi \in 1..Len(products[pi].variants) :
        /\ Len(cart) < MaxRegisterCart /\ nextId.key < MaxSyncSales
        /\ AddToCart(products[pi].id, Some(products[pi].variants[vi].id))
SyncCheckoutStep == nextId.item < MaxSyncSales /\ Checkout
SyncPushStep == push.n < MaxPushes /\ PushToCloud
SyncPullStep == pull.n < MaxPulls /\ PullFromCloud

SyncNext ==
    \/ SyncAddStep
    \/ CustomerStep
    \/ SyncCheckoutStep
    \/ SyncPushStep
    \/ PushUpsertOk
    \/ PushUpsertError
    \/ SyncPullStep
    \/ PullFetchOk
    \/ PullFetchError
    \/ PullSettle

InitSync == Init /\ products = <<LoadedProduct1(MaxStock, 1), LoadedProduct2>>
SpecSync == InitSync /\ [][SyncNext]_vars

\* the till over histories that come from backups: one of them is a backup
\* from which the first sale of June 2025 was taken out
HistoryDocuments ==
    {[parsed |-> TRUE, settings |-> Undefined, products |-> Undefined,
      customers |-> Undefined, sales |-> Some(ss)] :
        ss \in {<<>>, <<ImportedSale>>,
                <<[ImportedSale EXCEPT !.id = "INV-2506-0002", !.createdAt = "2025-06"]>>}}
HistoryImportStep == \E doc \in HistoryDocuments : ImportJSON(doc)
HistoryCheckoutStep == nextId.item < MaxHistoryItems /\ Checkout

HistoryNext ==
    \/ RegisterAddStep
    \/ HistoryCheckoutStep
    \/ HistoryImportStep

SpecHistory == InitRegister /\ [][HistoryNext]_vars

\* ------------------------------------------------------- the alternate page
\* its POS keeps SaleItems in the cart; posProductId, posVariantId and posQty
\* are the selections addToCart reads
PosAddToCart(posProductId, posVariantId, posQty) ==
    LET pi == FindProduct(products, posProductId)
        vi == IF pi = 0 THEN 0 ELSE FindVariant(products[pi].variants, Some(posVariantId))
        p == products[pi]
        v == p.variants[vi]
        item == [id |-> Uuid("item", nextId.item + 1),
                 productId |-> p.id,
                 variantId |-> IF vi = 0 THEN Undefined ELSE Some(v.id),
                 sku |-> IF vi = 0 THEN p.sku ELSE CompositeSku(p, v),
                 name |-> p.name,
                 size |-> IF vi = 0 THEN Undefined ELSE Some(v.size),
                 color |-> IF vi = 0 THEN Undefined ELSE Some(v.color),
                 qty |-> Max(1, posQty),
                 price |-> IF vi = 0 THEN p.price ELSE Coalesce(v.price, p.price)]
    IN /\ IF pi = 0
          THEN UNCHANGED <<cart, nextId>>
          ELSE /\ cart' = Append(cart, item)
               /\ nextId' = [nextId EXCEPT !.item = @ + 1]
       /\ alertMsg' = NoAlert
       /\ UNCHANGED <<settings, products, customers, sales, cartDiscount, cartTaxRate,
                      cartPayment, cartCustomerId, now, edge, initialStock, forms, sync>>

\* the quantity the cart asks of variant v of product p, over all its lines
RECURSIVE Used(_, _, _)
Used(c, p, v) ==
    IF c = <<>> THEN 0
    ELSE (IF Head(c).productId = p.id /\ Head(c).variantId = Some(v.id)
          THEN Head(c).qty ELSE 0) + Used(Tail(c), p, v)

RECURSIVE CartSubtotal(_)
CartSubtotal(c) ==
    IF c = <<>> THEN 0 ELSE Head(c).price * Head(c).qty + CartSubtotal(Tail(c))

\* nextProducts of completeSale
DeductStock(ps, c) ==
    [pi \in 1..Len(ps) |->
        IF \A i \in 1..Len(c) : c[i].productId # ps[pi].id
        THEN ps[pi]
        ELSE [ps[pi] EXCEPT !.variants =
                 [vi \in 1..Len(ps[pi].variants) |->
                     [ps[pi].variants[vi] EXCEPT
                         !.stock = Max(0, @ - Used(c, ps[pi], ps[pi].variants[vi]))]]]]

\* completeSale() with no Supabase client: the sale is kept locally only
CompleteSale ==
    /\ ~SupabaseConfigured
    /\ IF cart = <<>>
       THEN /\ alertMsg' = NoAlert
            /\ UNCHANGED <<products, sales, cart, nextId>>
       ELSE LET subtotal == CartSubtotal(cart)
                taxAmount == (subtotal * settings.taxRateDefault) \div 100
                sale == [id |-> Uuid("sale", nextId.sale + 1),
                         createdAt |-> CreatedAt(now),
                         subtotal |-> subtotal,
                         discount |-> 0,
                         taxRate |-> settings.taxRateDefault,
                         taxAmount |-> taxAmount,
                         total |-> subtotal + taxAmount,
                         paymentMethod |-> cartPayment,
                         notes |-> Undefined,
                         items |-> cart]
            IN /\ products' = DeductStock(products, cart)
               /\ sales' = <<sale>> \o sales
               /\ cart' = <<>>
               /\ nextId' = [nextId EXCEPT !.sale = @ + 1]
               /\ alertMsg' = <<"completeSale", "Sale completed!">>
    /\ UNCHANGED <<settings, customers, cartDiscount, cartTaxRate, cartPayment,
                   cartCustomerId, now, edge, initialStock, forms, sync>>

\* the selects offer the products of the catalog and, or "", the variants; the
\* quantity box keeps posQty >= 1; each button is disabled while it has no use
PosAddStep ==
    \E posProductId \in ProductIdsOf(products),
       posVariantId \in VariantIdsOf(products) \cup {""}, posQty \in 1..MaxQty :
        Len(cart) < MaxCart /\ nextId.item < MaxPosItems
        /\ PosAddToCart(posProductId, posVariantId, posQty)
CompleteSaleStep == cart # <<>> /\ Len(sales) < MaxRegisterSales /\ CompleteSale

PosNext ==
    \/ PosAddStep
    \/ CompleteSaleStep

\* the POS of the alternate page over a loaded catalog
SpecPos == InitLocal /\ [][PosNext]_vars

\* ------------------------------------------------------- the access gate
ServeStep == \E req \in Requests : Serve(req)

EdgeNext ==
    \/ ServeStep

InitEdge ==
    /\ settings \in LoadedSettings /\ ~SupabaseConfigured
    /\ products = <<LoadedProduct1(MaxStock, 1), LoadedProduct2>>
    /\ customers = <<LoadedCustomer>>
    /\ sales = <<>>
    /\ cart = <<>>
    /\ cartDiscount = 0
    /\ cartTaxRate = settings.taxRateDefault
    /\ cartPayment = "cash"
    /\ cartCustomerId = Undefined
    /\ nextId = NoIdsYet
    /\ now = [year |-> 2025, month |-> 6]
    /\ alertMsg = NoAlert
    /\ initialStock = StockAtLoad(products)
    /\ pForm = EmptyPForm
    /\ cForm = EmptyCForm
    /\ remote = EmptyRemote
    /\ push = PushIdle
    /\ pull = PullIdle
    /\ edge \in {[EdgeIdle EXCEPT !.env = e] : e \in Envs}

\* the middleware under every environment and request of the model
SpecEdge == InitEdge /\ [][EdgeNext]_vars

\* ================================================================ claims
\* the stock of variant vid in the current catalog (ids are unique there)
CurrentStock(vid) ==
    LET at == CHOOSE x \in {<<i, j>> : i \in 1..Len(products), j \in 1..MaxFormVariants + 2} :
                  /\ x[2] <= Len(products[x[1]].variants)
                  /\ products[x[1]].variants[x[2]].id = vid
    IN products[at[1]].variants[at[2]].stock

\* some cart line bound to a variant of the catalog asks for more than its stock
SomeLineExceedsStock ==
    \E i \in 1..Len(cart), pi \in 1..Len(products) :
        /\ products[pi].id = cart[i].productId
        /\ \E vi \in 1..Len(products[pi].variants) :
              /\ Some(products[pi].variants[vi].id) = cart[i].variantId
              /\ cart[i].qty > products[pi].variants[vi].stock

\* C1: a checkout over an empty cart, or over a cart with a line that asks for
\* more than its variant's stock, appends no Sale, changes no stock and leaves
\* the cart, the discount and the tax rate as they were.
C1_RejectedCheckoutChangesNothing ==
    [][(alertMsg'[1] = "checkout" /\ (cart = <<>> \/ SomeLineExceedsStock))
         => UNCHANGED <<products, sales, cart, cartDiscount, cartTaxRate>>]_vars

\* a checkout was rejected for its second line (stock 0 or 1, asked 2), with a
\* discount set
C1_Witness ==
    /\ alertMsg[1] = "checkout" /\ alertMsg[2] = "Not enough stock"
    /\ Len(cart) = 2 /\ cart[1].variantId = Undefined
    /\ cart[2].qty = 2 /\ alertMsg[3] < 2
    /\ cartDiscount # 0

\* the quantity of variant vid sold according to the history
RECURSIVE SoldInItems(_, _)
SoldInItems(items, vid) ==
    IF items = <<>> THEN 0
    ELSE (IF Head(items).variantId = Some(vid) THEN Head(items).qty ELSE 0)
         + SoldInItems(Tail(items), vid)
RECURSIVE SoldInSales(_, _)
SoldInSales(ss, vid) ==
    IF ss = <<>> THEN 0
    ELSE SoldInItems(Head(ss).items, vid) + SoldInSales(Tail(ss), vid)

\* C2: every variant's stock equals its initial stock minus the quantities the
\* history records as sold for it.
C2_StockIsInitialMinusSold ==
    \A vid \in DOMAIN initialStock :
        CurrentStock(vid) = initialStock[vid] - SoldInSales(sales, vid)

\* the sum of unitPrice * qty over the first n lines of the cart
RECURSIVE LineSum(_)
LineSum(n) == IF n = 0 THEN 0 ELSE LineSum(n - 1) + cart[n].unitPrice * cart[n].qty

\* C4: for non-negative prices, quantities, discount and tax rate the
\* calculator's subtotal is the sum of unitPrice * qty, discounted is
\* max(0, subtotal - discount), taxAmount is discounted * taxRate / 100, total
\* is discounted + taxAmount = max(0, subtotal - discount) * (1 + taxRate/100),
\* and a discount above the subtotal gives total 0.
C4_TotalsFormula ==
    LET t == CartTotals(cart, cartDiscount, cartTaxRate)
        sub == LineSum(Len(cart))
        floor == IF sub - cartDiscount > 0 THEN sub - cartDiscount ELSE 0
    IN (cartDiscount >= 0 /\ cartTaxRate >= 0
        /\ \A i \in 1..Len(cart) : cart[i].unitPrice >= 0 /\ cart[i].qty >= 0)
       => /\ t.subtotal = sub
          /\ t.discounted = floor
          /\ t.taxAmount * 100 = floor * cartTaxRate
          /\ t.total = floor + t.taxAmount
          /\ t.total * 100 = floor * (100 + cartTaxRate)
          /\ (cartDiscount > sub => t.total = 0)
          /\ t.total >= 0

\* the spec's example (one line 500.00 x 2, discount 100.00, tax 13 %: 1017.00),
\* and a cart whose discount exceeds its subtotal
C4_Witness ==
    /\ Len(cart) = 1 /\ cart[1].unitPrice = 50000 /\ cart[1].qty = 2
    /\ cartDiscount = 10000 /\ cartTaxRate = 13
    /\ CartTotals(cart, cartDiscount, cartTaxRate) =
          [subtotal |-> 100000, discounted |-> 90000, taxAmount |-> 11700,
           total |-> 101700]
C4_WitnessOverDiscount ==
    /\ cart # <<>> /\ cartDiscount > Subtotal(cart) /\ cartTaxRate > 0
    /\ CartTotals(cart, cartDiscount, cartTaxRate).total = 0

\* the sum of price * qty over the items of a sale
RECURSIVE ItemSum(_)
ItemSum(items) ==
    IF items = <<>> THEN 0 ELSE Head(items).price * Head(items).qty + ItemSum(Tail(items))

SaleConsistent(s) ==
    LET floor == IF s.subtotal - s.discount > 0 THEN s.subtotal - s.discount ELSE 0 IN
    /\ s.subtotal = ItemSum(s.items)
    /\ s.taxAmount * 100 = floor * s.taxRate
    /\ s.total = floor + s.taxAmount

\* C5: every Sale checkout puts in history has subtotal = sum of price * qty of
\* its items, taxAmount = max(0, subtotal - discount) * taxRate / 100 and
\* total = max(0, subtotal - discount) + taxAmount, for its own discount and
\* tax rate.
C5_SalesConsistent == \A i \in 1..Len(sales) : SaleConsistent(sales[i])

\* a sale of two items with a discount below its subtotal and a tax rate
C5_Witness ==
    \E i \in 1..Len(sales) :
        /\ Len(sales[i].items) = 2 /\ sales[i].items[1].qty = 2
        /\ sales[i].discount > 0 /\ sales[i].discount < sales[i].subtotal
        /\ sales[i].taxRate > 0 /\ sales[i].taxAmount > 0

\* C3: every Variant's stock is >= 0 in every reachable state.
C3_StockNonNegative ==
    \A pi \in 1..Len(products) :
        \A vi \in 1..Len(products[pi].variants) : products[pi].variants[vi].stock >= 0

\* C6: every Sale in history stays in history unchanged; a step adds at most
\* one Sale, at the front, and only a checkout adds one.
C6_SalesImmutable ==
    [][/\ Len(sales') - Len(sales) \in {0, 1}
       /\ SubSeq(sales', Len(sales') - Len(sales) + 1, Len(sales')) = sales
       /\ (Len(sales') = Len(sales) + 1 => alertMsg'[1] = "checkout")]_vars

\* two sales in history, the older one made before a product was created and a
\* stock was adjusted by hand
C6_Witness ==
    /\ Len(sales) = 2 /\ sales[1].id # sales[2].id
    /\ Len(products) = 3
    /\ \E vid \in DOMAIN initialStock :
          CurrentStock(vid) > initialStock[vid] - SoldInSales(sales, vid)

\* the rows of the five remote tables after a push of data to an empty store
PushedToEmpty(data) == [k \in 1..5 |-> <<"data", Upsert(<<>>, RowsFor(k, data))>>]
\* a step of pushToCloud / of pullFromCloud
PushStep == push' # push \/ alertMsg'[1] = "pushToCloud"
PullStep == pull' # pull \/ alertMsg'[1] = "pullFromCloud"
AllFetched == pull.pc = 6 /\ \A k \in 1..5 : pull.res[k][1] = "data"

\* C7: a push made again with the data of the push before it, which returned
\* without error, leaves every remote table as that push left it: no step of
\* the second push adds, removes or alters a row.
C7_PushIdempotent ==
    [][(push.again /\ PushStep) => remote' = remote]_vars

\* a second push of a catalog, a customer and a sale, through all five tables
C7_Witness ==
    /\ push.again /\ push.pc = 0 /\ push.ok
    /\ alertMsg = <<"pushToCloud", "Pushed to cloud">>
    /\ \A k \in 1..5 : remote[Tables[k]] = RowsFor(k, push.data)
    /\ remote["sale_items"] # <<>>

\* C8: a pull that fetches exactly what a push of the local collections writes
\* to an empty store installs collections equal to the local ones.
C8_PullAfterPushIsIdentity ==
    [][(pull.pc = 6 /\ pull'.pc = 0
        /\ pull.res = PushedToEmpty([products |-> products, customers |-> customers,
                                     sales |-> sales]))
       => local' = local]_vars

\* the same round trip over histories whose sales carry no customer snapshot
C8_RoundTripWithoutSnapshots ==
    [][(pull.pc = 6 /\ pull'.pc = 0
        /\ pull.res = PushedToEmpty([products |-> products, customers |-> customers,
                                     sales |-> sales])
        /\ \A i \in 1..Len(sales) : sales[i].customerSnapshot = Undefined)
       => local' = local]_vars

\* C9: a step that reports a failed upsert ends the push, writes nothing and
\* leaves the rows already written in place; every write of a push goes to the
\* table the push is at, and no step of a push changes the local collections.
C9_PushFailureStops ==
    [][/\ alertMsg'[2] = "Cloud push failed"
          => /\ push.pc \in 1..5 /\ alertMsg'[3] = Tables[push.pc]
             /\ push'.pc = 0 /\ ~push'.ok
             /\ remote' = remote
       /\ \A k \in 1..5 :
             remote'[Tables[k]] # remote[Tables[k]]
                => push.pc = k /\ push'.pc = (IF k < 5 THEN k + 1 ELSE 0)
       /\ PushStep => local' = local]_vars

\* the upsert of sales failed: products and customers are in the store, sales
\* and sale_items are not
C9_Witness ==
    /\ alertMsg = <<"pushToCloud", "Cloud push failed", "sales">>
    /\ push.pc = 0 /\ push.data.sales # <<>>
    /\ remote["products"] = ProdRows(push.data.products)
    /\ remote["customers"] = CustRows(push.data.customers)
    /\ remote["sales"] = <<>> /\ remote["sale_items"] = <<>>

\* C10: a step of a pull changes the local collections only when the client is
\* configured and all five fetches returned data, and then installs the three
\* collections rebuilt from those five answers; any other step of a pull
\* leaves products, customers and sales as they were.
C10_PullAllOrNothing ==
    [][PullStep =>
          IF SupabaseConfigured /\ AllFetched
          THEN /\ products' = PulledProducts(pull.res[1][2], pull.res[2][2])
               /\ customers' = PulledCustomers(pull.res[3][2])
               /\ sales' = PulledSales(pull.res[4][2], pull.res[5][2], now)
          ELSE local' = local]_vars

\* a pull failed on one fetch while the store held variant rows that differ
\* from the local stock
C10_Witness ==
    /\ alertMsg = <<"pullFromCloud", "Cloud pull failed">>
    /\ pull.pc = 0 /\ pull.n = 1
    /\ remote["products"] # <<>> /\ remote["product_variants"] # VarRows(products)

\* a pull asked for without a configured client
C10_WitnessNotConfigured ==
    /\ ~SupabaseConfigured
    /\ alertMsg = <<"pullFromCloud", "Add Supabase URL & Key in Settings first.">>
    /\ sales # <<>>

\* the ids of a sequence of records
IdsOf(xs) == {xs[i].id : i \in 1..Len(xs)}
\* the answer of the latest pull for table number k
Fetched(k) == pull.res[k][2]

\* C11: a pull that succeeds installs exactly the collections rebuilt from the
\* fetched rows; a product, customer or sale whose id is not among the fetched
\* rows of its table is absent afterwards.
C11_PullReplaces ==
    [][alertMsg'[2] = "Pulled from cloud" =>
          /\ products' = PulledProducts(Fetched(1), Fetched(2))
          /\ customers' = PulledCustomers(Fetched(3))
          /\ sales' = PulledSales(Fetched(4), Fetched(5), now)
          /\ IdsOf(products') = IdsOf(Fetched(1))
          /\ IdsOf(customers') = IdsOf(Fetched(3))
          /\ IdsOf(sales') = IdsOf(Fetched(4))
          /\ Len(products') = Len(Fetched(1))
          /\ Len(customers') = Len(Fetched(3))
          /\ Len(sales') = Cardinality(IdsOf(Fetched(4)))]_vars

\* a sale made at the register is gone after a pull that found no sale rows,
\* and the catalog is the fetched one
C11_Witness ==
    /\ alertMsg = <<"pullFromCloud", "Pulled from cloud">>
    /\ nextId.item = 1 /\ sales = <<>>
    /\ Fetched(4) = <<>> /\ Len(products) = 2

\* where the variant row / sale_item row with this id sits in the collections
VariantPlaces(ps, vid) ==
    UNION {{<<ps[pi].id, vi>> : vi \in {v \in 1..Len(ps[pi].variants) :
                                           ps[pi].variants[v].id = vid}} :
              pi \in 1..Len(ps)}
ItemPlaces(ss, iid) ==
    UNION {{<<ss[si].id, ii>> : ii \in {x \in 1..Len(ss[si].items) :
                                           ss[si].items[x].id = iid}} :
              si \in 1..Len(ss)}

\* C12: after a pull that succeeds, each fetched variant row sits once, in the
\* product with its product_id, and each fetched sale_item row once, in the
\* sale with its sale_id; a row whose parent was not fetched sits nowhere.
C12_ChildrenByForeignKey ==
    [][alertMsg'[2] = "Pulled from cloud" =>
          /\ \A j \in 1..Len(Fetched(2)) :
                LET v == Fetched(2)[j]
                    at == VariantPlaces(products', v.id)
                IN IF v.product_id \in IdsOf(Fetched(1))
                   THEN Cardinality(at) = 1 /\ \A x \in at : x[1] = v.product_id
                   ELSE at = {}
          /\ \A j \in 1..Len(Fetched(5)) :
                LET it == Fetched(5)[j]
                    at == ItemPlaces(sales', it.id)
                IN IF it.sale_id \in IdsOf(Fetched(4))
                   THEN Cardinality(at) = 1 /\ \A x \in at : x[1] = it.sale_id
                   ELSE at = {}]_vars

\* a pull that fetched the products before a push wrote them and the variants
\* after: both variant rows are orphans and the pull succeeded
C12_Witness ==
    /\ alertMsg = <<"pullFromCloud", "Pulled from cloud">>
    /\ Fetched(1) = <<>> /\ Len(Fetched(2)) = 2
    /\ products = <<>>

\* a pull that fetched products and variants: each variant is in its product
C12_WitnessAttached ==
    /\ alertMsg = <<"pullFromCloud", "Pulled from cloud">>
    /\ Len(Fetched(1)) = 2 /\ Len(Fetched(2)) = 2 /\ Len(Fetched(5)) = 1
    /\ Len(products[1].variants) = 2 /\ Len(sales) = 1 /\ Len(sales[1].items) = 1

\* C13: a checkout that completes a sale leaves the cart empty, the discount 0
\* and the tax rate at settings.taxRateDefault, and the history one Sale longer.
C13_CheckoutResetsCart ==
    [][alertMsg'[2] = "Sale completed" =>
          /\ cart' = <<>>
          /\ cartDiscount' = 0
          /\ cartTaxRate' = settings.taxRateDefault
          /\ Len(sales') = Len(sales) + 1]_vars

\* a sale made with a discount and with the tax rate set away from the default
C13_Witness ==
    /\ alertMsg = <<"checkout", "Sale completed">>
    /\ Len(sales) = 1 /\ sales[1].discount > 0
    /\ sales[1].taxRate # settings.taxRateDefault
    /\ cart = <<>> /\ cartDiscount = 0 /\ cartTaxRate = settings.taxRateDefault

\* the variants whose composite SKU is s, and the products whose bare SKU is s
CompositeMatches(s) ==
    UNION {{<<pi, vi>> : vi \in {j \in 1..Len(products[pi].variants) :
                                    CompositeSku(products[pi], products[pi].variants[j]) = s}} :
              pi \in 1..Len(products)}
BareMatches(s) == {pi \in 1..Len(products) : products[pi].sku = s}
\* the step appends one line, for product number pi and its variant number vi
\* (0: no variant)
AppendsLineFor(pi, vi) ==
    /\ Len(cart') = Len(cart) + 1
    /\ SubSeq(cart', 1, Len(cart)) = cart
    /\ cart'[Len(cart')].productId = products[pi].id
    /\ cart'[Len(cart')].variantId =
          (IF vi = 0 THEN Undefined ELSE Some(products[pi].variants[vi].id))
AddBySkuAsDocumented(s) ==
    LET comps == CompositeMatches(s)
        bares == BareMatches(s)
    IN /\ \A x \in comps : AppendsLineFor(x[1], x[2])
       /\ comps = {} =>
             \A pi \in bares :
                 AppendsLineFor(pi, IF products[pi].variants = <<>> THEN 0 ELSE 1)
       /\ (comps = {} /\ bares = {}) =>
             /\ alertMsg' = <<"addToCartBySku", "SKU not found">>
             /\ cart' = cart

\* C14: addToCartBySku(s) appends a line for the variant whose composite SKU
\* is s; failing that, for the product whose bare SKU is s with its first
\* variant (none when it has none); failing both, it signals 'not found' and
\* leaves the cart as it was.
C14_AddBySkuResolves ==
    [][\A s \in SkuInputs : AddToCartBySku(s) => AddBySkuAsDocumented(s)]_vars

\* the same, for an s that at most one variant or product of the catalog answers to
C14_ResolvesWhenUnambiguous ==
    [][\A s \in SkuInputs :
          (AddToCartBySku(s)
           /\ Cardinality(CompositeMatches(s)) + Cardinality(BareMatches(s)) <= 1)
          => AddBySkuAsDocumented(s)]_vars

\* the price add(prodId, variantId) is to capture: the override of the
\* product's variant with that id when it has one, else the base price
PriceToCapture(prodId, variantId) ==
    LET p == products[CHOOSE i \in 1..Len(products) : products[i].id = prodId]
        overrides == {p.variants[j].price[2] :
                         j \in {k \in 1..Len(p.variants) :
                                   /\ Some(p.variants[k].id) = variantId
                                   /\ p.variants[k].price # Undefined}}
    IN IF overrides = {} THEN p.price ELSE CHOOSE x \in overrides : TRUE

\* C15: addToCart(prodId, variantId) leaves the cart as it was when no product
\* has id prodId; otherwise the cart is the old cart followed by one line of
\* quantity 1 at the variant's price override, or at the product's base price
\* when there is no override.
C15_AddAppendsOneLine ==
    [][\A prodId \in ProductIdsOf(products) \cup {NoSuchId}, variantId \in VariantChoices :
          AddToCart(prodId, variantId) =>
             IF prodId \notin ProductIdsOf(products)
             THEN cart' = cart
             ELSE /\ Len(cart') = Len(cart) + 1
                  /\ SubSeq(cart', 1, Len(cart)) = cart
                  /\ cart'[Len(cart')].productId = prodId
                  /\ cart'[Len(cart')].qty = 1
                  /\ cart'[Len(cart')].unitPrice = PriceToCapture(prodId, variantId)]_vars

\* a line at an override price added behind a line at a base price whose
\* quantity had been raised
C15_Witness ==
    /\ Len(cart) = 2
    /\ cart[1].qty = 2 /\ cart[1].unitPrice = 50000
    /\ cart[2].variantId = Some("var-112") /\ cart[2].unitPrice = 70000 /\ cart[2].qty = 1
    /\ cart[2].key = "key-2"

\* C16: every cart line has quantity >= 1; updateCartQty(key, q) sets the
\* quantity of the lines with that key to q when q >= 1 and to 1 otherwise,
\* keeps every line in its place and changes nothing else in the cart.
C16_QuantityAtLeastOne ==
    [][/\ \A i \in 1..Len(cart') : cart'[i].qty >= 1
       /\ \A key \in CartKeys, q \in (-1)..MaxQty :
             UpdateCartQty(key, q) =>
                /\ Len(cart') = Len(cart)
                /\ \A i \in 1..Len(cart) :
                      cart'[i] = IF cart[i].key = key
                                 THEN [cart[i] EXCEPT !.qty = IF q >= 1 THEN q ELSE 1]
                                 ELSE cart[i]]_vars

\* two lines, the first raised to quantity 2 and the second still at 1
C16_Witness ==
    /\ Len(cart) = 2 /\ cart[1].key # cart[2].key
    /\ cart[1].qty = 2 /\ cart[2].qty = 1

\* C17: a line that stays in the cart keeps its unit price through every step,
\* and a checkout that completes records one SaleItem per cart line, in cart
\* order, with the line's captured price and its quantity.
C17_PriceFixedAtAdd ==
    [][/\ \A i \in 1..Len(cart), j \in 1..Len(cart') :
             cart'[j].key = cart[i].key => cart'[j].unitPrice = cart[i].unitPrice
       /\ alertMsg'[2] = "Sale completed" =>
             LET items == sales'[1].items
             IN /\ Len(items) = Len(cart)
                /\ \A i \in 1..Len(cart) :
                      /\ items[i].price = cart[i].unitPrice
                      /\ items[i].qty = cart[i].qty
                      /\ items[i].productId = cart[i].productId
                      /\ items[i].variantId = cart[i].variantId]_vars

\* a sale of two lines of one variant: the first added at the base price, the
\* second after an import replaced the catalog and gave the variant an override
C17_Witness ==
    /\ alertMsg = <<"checkout", "Sale completed">>
    /\ products[1].price = ImportedProduct.price
    /\ Len(sales[1].items) = 2
    /\ sales[1].items[1].variantId = Some("var-111") /\ sales[1].items[1].price = 50000
    /\ sales[1].items[2].variantId = Some("var-111") /\ sales[1].items[2].price = 90000

\* n in two and in four digits, for the numbers that occur
TwoDigits(n) == IF n < 10 THEN "0" \o ToString(n) ELSE ToString(n)
FourDigits(n) ==
    IF n < 10 THEN "000" \o ToString(n)
    ELSE IF n < 100 THEN "00" \o ToString(n)
    ELSE IF n < 1000 THEN "0" \o ToString(n)
    ELSE ToString(n)

\* C18: the id of the Sale a checkout records is "INV-", the two-digit year and
\* two-digit month of the date, "-", and the number of sales in history before
\* it plus one in four digits; with 3 prior sales in June 2025: INV-2506-0004.
C18_InvoiceId ==
    [][alertMsg'[2] = "Sale completed" =>
          /\ sales'[1].id = "INV-" \o TwoDigits(now.year % 100) \o TwoDigits(now.month)
                               \o "-" \o FourDigits(Len(sales) + 1)
          /\ (Len(sales) = 3 /\ now = [year |-> 2025, month |-> 6])
                => sales'[1].id = "INV-2506-0004"]_vars

\* the sale made after 3 prior sales in June 2025
C18_Witness ==
    /\ alertMsg = <<"checkout", "Sale completed">>
    /\ Len(sales) = 4 /\ now = [year |-> 2025, month |-> 6]
    /\ sales[1].id = "INV-2506-0004"

\* the tenth sale, in January 2009
C18_WitnessTenth ==
    /\ Len(sales) = 10 /\ sales[1].id = "INV-0901-0010"

\* what the import of a document's field is to leave in the local field
FieldByField(field, before, after) ==
    /\ field = Undefined => after = before
    /\ after # before => (Truthy(field) /\ after = field[2])
    /\ Truthy(field) => after = field[2]

\* C19: an import of a document that parses replaces each of settings,
\* products, customers and sales by the document's value when the document
\* has the field, and leaves it as it was when the field is absent; a document
\* that does not parse changes none of the four.
C19_ImportFieldByField ==
    [][\A doc \in Documents :
          ImportJSON(doc) =>
             IF doc.parsed
             THEN /\ FieldByField(doc.settings, settings, settings')
                  /\ FieldByField(doc.products, products, products')
                  /\ FieldByField(doc.customers, customers, customers')
                  /\ FieldByField(doc.sales, sales, sales')
             ELSE UNCHANGED <<settings, products, customers, sales>>]_vars

\* after a sale, a document with products and no sales was imported: the
\* catalog is the document's and the history still holds the sale
C19_Witness ==
    /\ alertMsg = <<"importJSON", "Import successful">>
    /\ products = <<ImportedProduct>>
    /\ Len(sales) = 1 /\ sales[1].id = "INV-2506-0001"
    /\ settings.taxRateDefault = 13

\* a file that is not JSON, chosen after a sale
C19_WitnessInvalid ==
    /\ alertMsg = <<"importJSON", "Invalid JSON file">>
    /\ Len(sales) = 1 /\ Len(products) = 2

\* C20: while a pull is in flight, from the issue of its fetches to the
\* install of what they returned, no checkout commits a sale.
C20_NoCheckoutDuringPull ==
    [][pull.pc \in 1..6 => alertMsg'[2] # "Sale completed"]_vars

\* a sale committed after all five fetches of a pull had answered without its
\* rows: the install that follows replaces the history and the catalog
C20_SaleAboutToBeOverwritten ==
    /\ alertMsg = <<"checkout", "Sale completed">>
    /\ AllFetched /\ Fetched(4) = <<>> /\ Fetched(1) = <<>>
    /\ Len(sales) = 1

\* C21: no two products of the catalog have the same SKU.
C21_SkuUnique ==
    \A i, j \in 1..Len(products) : i # j => products[i].sku # products[j].sku

\* C22: the Sale of a checkout made with a customer selected carries, as its
\* snapshot, the fields of the customer with that id as they are at checkout.
C22_SnapshotOfSelectedCustomer ==
    [][(alertMsg'[2] = "Sale completed" /\ sales'[1].customerId # Undefined) =>
          \E i \in 1..Len(customers) :
              /\ Some(customers[i].id) = sales'[1].customerId
              /\ sales'[1].customerSnapshot = Some(customers[i])]_vars

\* the same, for a selected customer who is in the customer list at checkout
C22_SnapshotWhenListed ==
    [][(alertMsg'[2] = "Sale completed" /\ sales'[1].customerId # Undefined
        /\ \E i \in 1..Len(customers) : Some(customers[i].id) = sales'[1].customerId) =>
          \E i \in 1..Len(customers) :
              /\ Some(customers[i].id) = sales'[1].customerId
              /\ sales'[1].customerSnapshot = Some(customers[i])]_vars

\* C23: in the commit step of a checkout the floor at 0 is idle: every variant
\* some sold line is bound to is decremented by the quantity of the first such
\* line, and its stock minus that quantity is >= 0 before the commit.
C23_FloorNeverTakesEffect ==
    [][alertMsg'[2] = "Sale completed" =>
          \A pi \in 1..Len(products) : \A vi \in 1..Len(products[pi].variants) :
              LET v == products[pi].variants[vi]
                  items == sales'[1].items
                  bound(i) == items[i].productId = products[pi].id
                              /\ items[i].variantId = Some(v.id)
              IN (\E i \in 1..Len(items) : bound(i)) =>
                    LET i == CHOOSE i \in 1..Len(items) :
                                 bound(i) /\ \A j \in 1..(i - 1) : ~bound(j)
                    IN /\ v.stock - items[i].qty >= 0
                       /\ products'[pi].variants[vi].stock = v.stock - items[i].qty]_vars

\* a sale of two lines bound to one variant was committed and took the whole
\* stock of the variant with its first line
C23_Witness ==
    /\ alertMsg[2] = "Sale completed"
    /\ Len(sales[1].items) = 2
    /\ sales[1].items[1].variantId # Undefined
    /\ sales[1].items[1].variantId = sales[1].items[2].variantId
    /\ initialStock[sales[1].items[1].variantId[2]] = sales[1].items[1].qty
    /\ CurrentStock(sales[1].items[1].variantId[2]) = 0

\* the rows of table k that the push in flight has sent are in the store
Written(k) ==
    \A i \in 1..Len(RowsFor(k, push.data)) :
        \E j \in 1..Len(remote[Tables[k]]) :
            remote[Tables[k]][j] = RowsFor(k, push.data)[i]

\* C24: a push writes products, product_variants, customers, sales, sale_items
\* in this order, each table only when the tables before it are written; at
\* every point, also after a failure, every variant row in the store has its
\* product row there and every sale_item row has its sale row there.
C24_PushParentsFirst ==
    [][/\ \A k \in 1..5 :
             remote'[Tables[k]] # remote[Tables[k]] =>
                 /\ push.pc = k /\ push'.pc = (IF k < 5 THEN k + 1 ELSE 0)
                 /\ remote'[Tables[k]] = Upsert(remote[Tables[k]], RowsFor(k, push.data))
                 /\ \A j \in 1..(k - 1) : Written(j)
       /\ (push.pc \in 1..5 /\ push'.pc = push.pc + 1) =>
             remote'[Tables[push.pc]] = Upsert(remote[Tables[push.pc]],
                                               RowsFor(push.pc, push.data))
       /\ \A i \in 1..Len(remote'["product_variants"]) :
             \E j \in 1..Len(remote'["products"]) :
                 remote'["products"][j].id = remote'["product_variants"][i].product_id
       /\ \A i \in 1..Len(remote'["sale_items"]) :
             \E j \in 1..Len(remote'["sales"]) :
                 remote'["sales"][j].id = remote'["sale_items"][i].sale_id]_vars

\* a push of a catalog and a sale failed at sale_items: the four tables before
\* it are written, sale_items is not
C24_Witness ==
    /\ alertMsg = <<"pushToCloud", "Cloud push failed", "sale_items">>
    /\ push.pc = 0 /\ push.data.sales # <<>>
    /\ \A k \in 1..4 : remote[Tables[k]] = RowsFor(k, push.data)
    /\ remote["product_variants"] # <<>>
    /\ remote["sale_items"] = <<>>

\* C25: completeSale records no Sale and changes no stock when a cart line asks
\* for more of a variant than that variant has in stock.
C25_CompleteSaleValidates ==
    [][(CompleteSale /\ cart # <<>> /\ SomeLineExceedsStock)
         => UNCHANGED <<products, sales>>]_vars

\* the latest request came from an address of the allowlist
FromAllowlisted ==
    \E i \in 1..Len(IP_ALLOWLIST(edge.env)) :
        IP_ALLOWLIST(edge.env)[i] = ClientIp(edge.req)

\* the Basic credentials the latest request carries: the decoded text up to
\* its first colon is the user-id, all that follows it the password
CarriesBasic ==
    /\ edge.req.authorization # Null
    /\ Len(edge.req.authorization[2]) = 3
    /\ edge.req.authorization[2][1] = "Basic" /\ edge.req.authorization[2][2] = " "
    /\ edge.req.authorization[2][3] \in DOMAIN Decoded
    /\ \E i \in 1..Len(Decoded[edge.req.authorization[2][3]]) :
          Decoded[edge.req.authorization[2][3]][i] = ":"
CarriedText == Decoded[edge.req.authorization[2][3]]
FirstColon == CHOOSE i \in 1..Len(CarriedText) :
                  CarriedText[i] = ":" /\ \A j \in 1..(i - 1) : CarriedText[j] # ":"
ValidCredentials ==
    /\ CarriesBasic
    /\ SubSeq(CarriedText, 1, FirstColon - 1) = USER(edge.env)
    /\ SubSeq(CarriedText, FirstColon + 1, Len(CarriedText)) = PASS(edge.env)

\* C26: with a non-empty IP_ALLOWLIST, a request from an address of the list is
\* let through without Basic credentials; a request from any other address is
\* let through with valid credentials and gets 401 otherwise.
C26_AllowlistBypassesAuth ==
    (edge.res # "" /\ IP_ALLOWLIST(edge.env) # <<>>) =>
        IF FromAllowlisted
        THEN edge.res = "next"
        ELSE edge.res = "next" <=> ValidCredentials

\* the allowlist changes no answer: the gate answers as it does without one
C26_AllowlistIgnored ==
    edge.res # "" =>
        edge.res = Middleware([edge.env EXCEPT !.IP_ALLOWLIST = Undefined], edge.req)

\* C30: a request is forwarded only if it carries Basic credentials whose user
\* and password equal BASIC_USER and BASIC_PASS, and is answered 401 otherwise;
\* with BASIC_USER and BASIC_PASS not configured no request is forwarded.
C30_OnlyConfiguredCredentials ==
    edge.res # "" =>
        /\ edge.res = "next" <=> ValidCredentials
        /\ (USER(edge.env) = <<>> /\ PASS(edge.env) = <<>>) => edge.res = "401"

\* with both configured, credentials equal to them are forwarded and a request
\* without credentials or with another password is answered 401
C30_ConfiguredGate ==
    (edge.res # "" /\ USER(edge.env) # <<>> /\ PASS(edge.env) # <<>>) =>
        /\ ValidCredentials => edge.res = "next"
        /\ edge.res = "next" =>
              /\ CarriesBasic
              /\ SubSeq(CarriedText, 1, FirstColon - 1) = USER(edge.env)
              /\ Split(CarriedText, ":")[2] = PASS(edge.env)

\* C27: a successful checkout sells of no variant more than was in stock: the
\* quantities of all cart lines bound to a variant sum to at most its stock
\* immediately before the checkout.
C27_NeverSellsMoreThanStock ==
    [][alertMsg'[2] = "Sale completed" =>
          \A pi \in 1..Len(products) : \A vi \in 1..Len(products[pi].variants) :
              Used(cart, products[pi], products[pi].variants[vi])
                  <= products[pi].variants[vi].stock]_vars

\* C28: every cart line's productId, and its variantId when set, resolves in
\* the current catalog (so that a checkout validates and decrements the stock
\* of every variant-bound line it sells).
C28_CartLinesResolve ==
    \A i \in 1..Len(cart) :
        LET pi == FindProduct(products, cart[i].productId) IN
        /\ pi # 0
        /\ ~IsNullish(cart[i].variantId) =>
              FindVariant(products[pi].variants, cart[i].variantId) # 0

\* a checkout completes only over a cart with no line that resolves to a
\* variant short of stock; lines that do not resolve are sold unchecked
C28_ResolvingLinesValidated ==
    [][alertMsg'[2] = "Sale completed" => ~SomeLineExceedsStock]_vars

\* C29: the invoice id a checkout generates is the id of no Sale already in
\* the local history.
C29_InvoiceIdFresh ==
    [][alertMsg'[2] = "Sale completed" =>
          \A i \in 1..Len(sales) : sales[i].id # sales'[1].id]_vars

=============================================================================
